---- MODULE Spec2Model ----
(***************************************************************************)
(* A model of the retrieval-augmented question-answering service:          *)
(*   app/rag/embedder.py   Embedder                                        *)
(*   app/rag/retriever.py  DocumentRetriever (loader, FAISS index, store)  *)
(*   app/rag/pipeline.py   lazy global components, ask, rebuild_index      *)
(*   app/main.py           the /ask endpoint                               *)
(*                                                                         *)
(* A text is a sequence of one-character strings, so that strip, replace   *)
(* and readlines can be computed character by character as Python does.    *)
(***************************************************************************)
EXTENDS Integers, Sequences, FiniteSets, TLC

\* ------------------------------------------------------------------ bounds
MaxFiles == 2
MaxTopK == 2
MaxDocs == 2
MaxTextLen == 3
MaxLoaderFiles == 3
NumCallers == 2

\* -------------------------------------------------------------- characters
NL == "\n"
BS == "\\"
SP == " "
Alphabet == {"a", "n", BS, NL, SP}
WhiteSpace == {SP, NL}

Min(a, b) == IF a <= b THEN a ELSE b

\* --------------------------------------------------------- Python str ops
\* str.strip(): drop leading and trailing whitespace
RECURSIVE LStrip(_)
LStrip(s) ==
    IF s = <<>> THEN <<>>
    ELSE IF Head(s) \in WhiteSpace THEN LStrip(Tail(s)) ELSE s

RECURSIVE RStrip(_)
RStrip(s) ==
    IF s = <<>> THEN <<>>
    ELSE IF s[Len(s)] \in WhiteSpace THEN RStrip(SubSeq(s, 1, Len(s) - 1)) ELSE s

Strip(s) == RStrip(LStrip(s))

\* doc.replace("\n", "\\n"): every newline becomes backslash, n
RECURSIVE Escape(_)
Escape(doc) ==
    IF doc = <<>> THEN <<>>
    ELSE IF Head(doc) = NL THEN <<BS, "n">> \o Escape(Tail(doc))
    ELSE <<Head(doc)>> \o Escape(Tail(doc))

\* line.replace("\\n", "\n"): every backslash, n (left to right, not
\* overlapping) becomes a newline
RECURSIVE Unescape(_)
Unescape(line) ==
    IF line = <<>> THEN <<>>
    ELSE IF Len(line) >= 2 /\ line[1] = BS /\ line[2] = "n"
         THEN <<NL>> \o Unescape(SubSeq(line, 3, Len(line)))
    ELSE <<Head(line)>> \o Unescape(Tail(line))

\* the text written to <index>.docs.txt: one escaped document per line
RECURSIVE WriteDocs(_)
WriteDocs(docs) ==
    IF docs = <<>> THEN <<>>
    ELSE Escape(Head(docs)) \o <<NL>> \o WriteDocs(Tail(docs))

\* f.readlines(): the lines of a text, each with its terminating newline
RECURSIVE ReadLinesFrom(_, _)
ReadLinesFrom(content, cur) ==
    IF content = <<>> THEN (IF cur = <<>> THEN <<>> ELSE <<cur>>)
    ELSE IF Head(content) = NL
         THEN <<cur \o <<NL>>>> \o ReadLinesFrom(Tail(content), <<>>)
    ELSE ReadLinesFrom(Tail(content), cur \o <<Head(content)>>)

ReadLines(content) == ReadLinesFrom(content, <<>>)

\* [line.strip().replace("\\n", "\n") for line in f.readlines()]
ReadDocs(content) ==
    LET lines == ReadLines(content)
    IN  [i \in 1..Len(lines) |-> Unescape(Strip(lines[i]))]

\* ---------------------------------------------------------------- Embedder
\* The sentence-transformers model is an external black box; a vector is
\* modelled as the count of each character of the text (a lossy, deterministic
\* encoding), and the inner product of two vectors is the similarity score.
RECURSIVE Count(_, _)
Count(c, s) ==
    IF s = <<>> THEN 0
    ELSE (IF Head(s) = c THEN 1 ELSE 0) + Count(c, Tail(s))

Encode(text) == [c \in Alphabet |-> Count(c, text)]

EmptyArray == [c \in {} |-> 0]

\* Embedder.embed_query: a blank query gives np.array([]) (size 0)
embed_query(query) ==
    IF query = <<>> \/ Strip(query) = <<>> THEN EmptyArray ELSE Encode(query)

\* Embedder.embed_documents: one vector per text, input order kept
embed_documents(docs) ==
    [i \in 1..Len(docs) |-> Encode(docs[i])]

\* ------------------------------------------------------------ Vector index
NoIndex == [kind |-> "None"]
IndexFlatIP(rows) == [kind |-> "IndexFlatIP", rows |-> rows]

\* index.ntotal
ntotal(ix) == Len(ix.rows)

RECURSIVE SumOver(_, _, _)
SumOver(S, u, v) ==
    IF S = {} THEN 0
    ELSE LET c == CHOOSE e \in S : TRUE
         IN  u[c] * v[c] + SumOver(S \ {c}, u, v)

InnerProduct(u, v) == SumOver(Alphabet, u, v)

\* the score FAISS reports for a result slot it could not fill
NoScore == -1

\* a ranking with the lower score first
BeforeAscending(rows, q, r, s) ==
    LET sr == InnerProduct(q, rows[r])
        ss == InnerProduct(q, rows[s])
    IN  sr < ss \/ (sr = ss /\ r < s)

\* row r ranks before row s: higher score first, equal scores in row order
Before(rows, q, r, s) ==
    LET sr == InnerProduct(q, rows[r])
        ss == InnerProduct(q, rows[s])
    IN  sr > ss \/ (sr = ss /\ r < s)

\* the row (1-based) at rank p of the exhaustive search
RowAtRank(rows, q, p) ==
    CHOOSE r \in 1..Len(rows) :
        Cardinality({s \in 1..Len(rows) : Before(rows, q, s, r)}) = p - 1

\* IndexFlatIP.search(q, k) for k >= 1: k (score, idx) slots, idx 0-based,
\* the slots beyond ntotal filled with idx -1
SearchSlots(ix, q, k) ==
    [p \in 1..k |->
        IF p <= ntotal(ix)
        THEN LET r == RowAtRank(ix.rows, q, p)
             IN  [idx |-> r - 1, score |-> InnerProduct(q, ix.rows[r])]
        ELSE [idx |-> -1, score |-> NoScore]]

\* a search that reports k rows of the index in an order of its choice
SearchOutcomesUnordered(ix, q, k) ==
    IF k <= 0 THEN {[raised |-> TRUE, slots |-> <<>>]}
    ELSE {[raised |-> FALSE,
           slots |-> [p \in 1..k |->
                        [idx |-> f[p] - 1,
                         score |-> InnerProduct(q, ix.rows[f[p]])]]] :
             f \in {g \in [1..k -> 1..ntotal(ix)] :
                      \A a, b \in 1..k : a # b => g[a] # g[b]}}

\* the outcomes of self.index.search(query_embedding, top_k): the faiss
\* wrapper rejects k < 0 in every build; k = 0 is rejected by the builds that
\* assert k > 0 and gives no slot in the others
SearchOutcomes(ix, q, k) ==
    IF k < 0 THEN {[raised |-> TRUE, slots |-> <<>>]}
    ELSE IF k = 0 THEN {[raised |-> TRUE, slots |-> <<>>],
                        [raised |-> FALSE, slots |-> <<>>]}
    ELSE {[raised |-> FALSE, slots |-> SearchSlots(ix, q, k)]}

\* --------------------------------------------------------- Document loader
TxtFile(readable, content) ==
    [kind |-> "txt", readable |-> readable, pages |-> <<content>>]
PdfFile(readable, pages) ==
    [kind |-> "pdf", readable |-> readable, pages |-> pages]

IsTxt(f) == f.kind = "txt"
IsPdf(f) == f.kind = "pdf"

\* pdf_text: every page with extractable text, followed by a newline
RECURSIVE PdfText(_)
PdfText(pages) ==
    IF pages = <<>> THEN <<>>
    ELSE (IF Head(pages) # <<>> THEN Head(pages) \o <<NL>> ELSE <<>>)
         \o PdfText(Tail(pages))

\* the text of a file as it is, neither trimmed nor tested for emptiness
FileTextUntrimmed(f) ==
    IF ~f.readable THEN <<>>
    ELSE IF IsTxt(f) THEN f.pages[1]
    ELSE PdfText(f.pages)

\* the text one file contributes; <<>> when it is skipped
FileText(f) ==
    IF ~f.readable THEN <<>>
    ELSE IF IsTxt(f) THEN Strip(f.pages[1])
    ELSE Strip(PdfText(f.pages))

\* a loop over the files that ends at the first file it cannot read
RECURSIVE LoadFilesAborting(_)
LoadFilesAborting(files) ==
    IF files = <<>> THEN <<>>
    ELSE IF ~Head(files).readable THEN <<>>
    ELSE (IF FileText(Head(files)) # <<>> THEN <<FileText(Head(files))>> ELSE <<>>)
         \o LoadFilesAborting(Tail(files))

RECURSIVE LoadFiles(_)
LoadFiles(files) ==
    IF files = <<>> THEN <<>>
    ELSE (IF FileText(Head(files)) # <<>> THEN <<FileText(Head(files))>> ELSE <<>>)
         \o LoadFiles(Tail(files))

\* DocumentRetriever._load_documents: .txt files first, then .pdf files
_load_documents(dir) ==
    IF ~dir.exists THEN <<>>
    ELSE LoadFiles(SelectSeq(dir.files, IsTxt) \o SelectSeq(dir.files, IsPdf))

\* ------------------------------------------------------------------ faults
\* the faults a call can meet in its collaborators: the embedding model
\* raises, index.search raises, faiss.write_index raises, or the documents
\* file cannot be opened for writing
NoFault == "none"
EmbedFault == "embed"
SearchFault == "search"
WriteIndexFault == "write_index"
WriteDocsFault == "write_docs"

\* ------------------------------------------------------------- Index store
\* the two persisted artifacts: <index_path> and <index_path>.docs.txt
Absent == [kind |-> "absent"]
CorruptFile == [kind |-> "corrupt"]
IndexFile(rows) == [kind |-> "index", rows |-> rows]
TextFile(text) == [kind |-> "text", text |-> text]

NoDisk == [index |-> Absent, docs |-> Absent]

\* a save that logs a failed write and returns
_save_index_swallowing(documents, ix, disk, fault) ==
    IF fault = WriteIndexFault
    THEN [raised |-> FALSE, disk |-> disk, calls |-> <<"write_index">>]
    ELSE IF fault = WriteDocsFault
    THEN [raised |-> FALSE, disk |-> [disk EXCEPT !.index = IndexFile(ix.rows)],
          calls |-> <<"write_index", "write_docs">>]
    ELSE [raised |-> FALSE,
          disk |-> [index |-> IndexFile(ix.rows),
                    docs |-> TextFile(WriteDocs(documents))],
          calls |-> <<"write_index", "write_docs">>]

\* DocumentRetriever._save_index: faiss.write_index, then the documents file;
\* an exception of either write is logged and re-raised, what was written
\* before it stays on disk
_save_index(documents, ix, disk, fault) ==
    IF fault = WriteIndexFault
    THEN [raised |-> TRUE, disk |-> disk, calls |-> <<"write_index">>]
    ELSE IF fault = WriteDocsFault
    THEN [raised |-> TRUE, disk |-> [disk EXCEPT !.index = IndexFile(ix.rows)],
          calls |-> <<"write_index", "write_docs">>]
    ELSE [raised |-> FALSE,
          disk |-> [index |-> IndexFile(ix.rows),
                    docs |-> TextFile(WriteDocs(documents))],
          calls |-> <<"write_index", "write_docs">>]

\* a load that answers an unreadable index file with an empty index
_load_index_fallback(documents, ix, disk) ==
    IF disk.index.kind # "index"
    THEN [raised |-> FALSE, documents |-> <<>>, index |-> IndexFlatIP(<<>>),
          calls |-> <<"read_index">>]
    ELSE [raised |-> FALSE,
          documents |-> IF disk.docs.kind = "text"
                        THEN ReadDocs(disk.docs.text) ELSE documents,
          index |-> IndexFlatIP(disk.index.rows),
          calls |-> <<"read_index">>
                    \o (IF disk.docs.kind = "text" THEN <<"read_docs">> ELSE <<>>)]

\* DocumentRetriever._load_index on a retriever whose fields are
\* (documents, ix): faiss.read_index raises on an unreadable index file; the
\* documents are read only when the documents file exists
_load_index(documents, ix, disk) ==
    IF disk.index.kind # "index"
    THEN [raised |-> TRUE, documents |-> documents, index |-> ix,
          calls |-> <<"read_index">>]
    ELSE [raised |-> FALSE,
          documents |-> IF disk.docs.kind = "text"
                        THEN ReadDocs(disk.docs.text) ELSE documents,
          index |-> IndexFlatIP(disk.index.rows),
          calls |-> <<"read_index">>
                    \o (IF disk.docs.kind = "text" THEN <<"read_docs">> ELSE <<>>)]

\* --------------------------------------------------------------- Retriever
\* a build that treats an empty document list as an error
_create_index_rejecting_empty(documents, ix, disk, dir, fault) ==
    LET docs == _load_documents(dir)
    IN  IF docs = <<>> \/ fault = EmbedFault
        THEN [raised |-> TRUE, documents |-> docs, index |-> ix, disk |-> disk,
              calls |-> <<"_load_documents">>]
        ELSE LET built == IndexFlatIP(embed_documents(docs))
                 saved == _save_index(docs, built, disk, fault)
             IN  [raised |-> saved.raised, documents |-> docs, index |-> built,
                  disk |-> saved.disk,
                  calls |-> <<"_load_documents", "embed_documents",
                              "IndexFlatIP", "add">> \o saved.calls]

\* DocumentRetriever._create_index on a retriever whose fields are
\* (documents, ix), with the persisted artifacts disk and the directory dir
_create_index(documents, ix, disk, dir, fault) ==
    LET docs == _load_documents(dir)
    IN  IF docs = <<>>
        THEN [raised |-> FALSE, documents |-> docs,
              index |-> IndexFlatIP(<<>>), disk |-> disk,
              calls |-> <<"_load_documents", "IndexFlatIP">>]
        ELSE IF fault = EmbedFault
        THEN [raised |-> TRUE, documents |-> docs, index |-> ix, disk |-> disk,
              calls |-> <<"_load_documents", "embed_documents">>]
        ELSE LET built == IndexFlatIP(embed_documents(docs))
                 saved == _save_index(docs, built, disk, fault)
             IN  [raised |-> saved.raised, documents |-> docs, index |-> built,
                  disk |-> saved.disk,
                  calls |-> <<"_load_documents", "embed_documents",
                              "IndexFlatIP", "add">> \o saved.calls]

\* DocumentRetriever.__init__ and _initialize: load when the index file
\* exists, build otherwise
_initialize(disk, dir, fault) ==
    IF disk.index # Absent
    THEN _load_index(<<>>, NoIndex, disk) @@ [disk |-> disk]
    ELSE _create_index(<<>>, NoIndex, disk, dir, fault)

\* the (document, score) pairs of the slots: a slot is kept when
\* idx < len(self.documents); Python resolves idx -1 to the last document and
\* raises IndexError on an empty list
RECURSIVE Resolve(_, _)
Resolve(documents, slots) ==
    IF slots = <<>> THEN [raised |-> FALSE, result |-> <<>>]
    ELSE LET s == Head(slots)
             rest == Resolve(documents, Tail(slots))
         IN  IF ~(s.idx < Len(documents)) THEN rest
             ELSE IF s.idx < -Len(documents)
             THEN [raised |-> TRUE, result |-> <<>>]
             ELSE LET pos == IF s.idx >= 0 THEN s.idx + 1
                             ELSE Len(documents) + s.idx + 1
                  IN  [raised |-> rest.raised,
                       result |-> IF rest.raised THEN <<>>
                                  ELSE <<[doc |-> documents[pos], score |-> s.score]>>
                                       \o rest.result]

Raised == [raised |-> TRUE, result |-> <<>>]
Returned(result) == [raised |-> FALSE, result |-> result]

\* retrieve without the clamp of top_k to index.ntotal
retrieve_unclamped(documents, ix, query, top_k, fault) ==
    IF ix = NoIndex \/ ntotal(ix) = 0 THEN {Returned(<<>>)}
    ELSE IF fault = EmbedFault /\ embed_query(query) # EmptyArray THEN {Raised}
    ELSE IF embed_query(query) = EmptyArray THEN {Returned(<<>>)}
    ELSE IF fault = SearchFault THEN {Raised}
    ELSE {IF o.raised THEN Raised ELSE Resolve(documents, o.slots) :
             o \in SearchOutcomes(ix, embed_query(query), top_k)}

\* DocumentRetriever.retrieve(query, top_k): the outcomes of one call
retrieve(documents, ix, query, top_k, fault) ==
    IF ix = NoIndex \/ ntotal(ix) = 0 THEN {Returned(<<>>)}
    ELSE IF fault = EmbedFault /\ embed_query(query) # EmptyArray THEN {Raised}
    ELSE IF embed_query(query) = EmptyArray THEN {Returned(<<>>)}
    ELSE IF fault = SearchFault THEN {Raised}
    ELSE LET k == Min(top_k, ntotal(ix))
         IN  {IF o.raised THEN Raised ELSE Resolve(documents, o.slots) :
                 o \in SearchOutcomes(ix, embed_query(query), k)}

\* =================================================================== state
VARIABLES
    dataDir,        \* the source directory: [exists, files]
    disk,           \* the persisted artifacts: [index, docs]
    _retriever,     \* the reference to the DocumentRetriever, or "None"
    documents,      \* DocumentRetriever.documents
    index,          \* DocumentRetriever.index
    ret,            \* the outcome of the last Retriever call
    _embedder,      \* pipeline global: the Embedder, or "None"
    _groq_client,   \* pipeline global: the Groq client, or "None"
    apiKey,         \* GROQ_API_KEY is set in the process environment
    modelOk,        \* the embedding model can be loaded
    pc,             \* per caller: the frame of its call into the pipeline
    modelLoads,     \* embedding model loads completed in this process
    retrieverInits, \* DocumentRetriever constructions completed
    rb,             \* the frame of an in-flight rebuild_index
    rt              \* the frame of an in-flight retrieve

retrVars == <<_retriever, documents, index>>
envVars == <<dataDir, disk>>
pipeVars == <<_embedder, _groq_client, apiKey, modelOk, pc, modelLoads,
              retrieverInits>>
threadVars == <<rb, rt>>
vars == <<dataDir, disk, _retriever, documents, index, ret, _embedder,
          _groq_client, apiKey, modelOk, pc, modelLoads, retrieverInits,
          rb, rt>>

Callers == 1..NumCallers

\* the increments one /ask request has made: request_count under status
\* success, request_count under status error, request_failures
NoMetrics == [success |-> 0, error |-> 0, failures |-> 0]

\* a handler that counts a failed request without recording the failure
RecordedWithoutFailure(exc) ==
    IF exc = "none" THEN [NoMetrics EXCEPT !.success = 1]
    ELSE [NoMetrics EXCEPT !.error = 1]

\* ask_question: what it records when ask has ended with exception exc
\* (record_request on return; record_failure, then record_request, in each
\* of the two except clauses)
Recorded(exc) ==
    IF exc = "none" THEN [NoMetrics EXCEPT !.success = @ + 1]
    ELSE IF exc = "ValueError"
    THEN [NoMetrics EXCEPT !.failures = @ + 1, !.error = @ + 1]
    ELSE [NoMetrics EXCEPT !.failures = @ + 1, !.error = @ + 1]

\* the frame of a caller that is not in a call
IdleFrame == [fn |-> "none", at |-> "idle", exc |-> "none", cause |-> "none",
              http |-> 0, metrics |-> NoMetrics]
\* the frames of a Retriever on which no call is in flight
NoRebuild == [at |-> "idle", embeddings |-> <<>>]
NoRetrieve == [at |-> "idle", query |-> <<>>, top_k |-> 0, slots |-> <<>>,
               searched |-> NoIndex, resolved |-> <<>>, during |-> FALSE,
               result |-> <<>>]

\* the pipeline module right after import, no call made yet
PipelineIdle ==
    /\ _embedder = "None"
    /\ _groq_client = "None"
    /\ pc = [c \in Callers |-> IdleFrame]
    /\ modelLoads = 0
    /\ retrieverInits = 0
ThreadsIdle ==
    /\ rb = NoRebuild
    /\ rt = NoRetrieve

\* again: the call repeated the retrieve before it, and returned; before:
\* what the retrieve before it returned; calls: what an initialization or a
\* rebuild called, in the order of the calls
NoRet == [op |-> "none", path |-> "none", raised |-> FALSE, fault |-> "none",
          query |-> <<>>, top_k |-> 0, result |-> <<>>,
          again |-> FALSE, before |-> <<>>, calls |-> <<>>]
OpRet(op, path, raised, fault) ==
    [NoRet EXCEPT !.op = op, !.path = path, !.raised = raised, !.fault = fault]

\* ------------------------------------------------ inputs of the lifecycle
\* the question of the requests
Question == <<"a">>
LifecycleFiles ==
    {TxtFile(TRUE, <<SP, "a">>), PdfFile(TRUE, << <<BS, "n">>, <<>> >>)}
Queries == {<<"a">>, <<SP>>}
TopKs == -1..MaxTopK
Faults == {NoFault, EmbedFault}
RetrieveFaults == {NoFault, EmbedFault, SearchFault}
BuildFaults == {NoFault, EmbedFault, WriteIndexFault, WriteDocsFault}

\* ------------------------------------------------------ the environment
\* a file is written into the source directory (created when missing)
PutFile(f) ==
    /\ Len(dataDir.files) < MaxFiles
    /\ dataDir' = [exists |-> TRUE, files |-> Append(dataDir.files, f)]
    /\ ret' = NoRet
    /\ UNCHANGED <<disk, retrVars>>
    /\ UNCHANGED <<pipeVars, threadVars>>

\* a file is removed from the source directory
DeleteFile(i) ==
    /\ i \in 1..Len(dataDir.files)
    /\ dataDir' = [dataDir EXCEPT !.files =
                      SubSeq(dataDir.files, 1, i - 1)
                      \o SubSeq(dataDir.files, i + 1, Len(dataDir.files))]
    /\ ret' = NoRet
    /\ UNCHANGED <<disk, retrVars>>
    /\ UNCHANGED <<pipeVars, threadVars>>

\* the empty source directory is removed
RemoveDataDir ==
    /\ dataDir.exists /\ dataDir.files = <<>>
    /\ dataDir' = [exists |-> FALSE, files |-> <<>>]
    /\ ret' = NoRet
    /\ UNCHANGED <<disk, retrVars>>
    /\ UNCHANGED <<pipeVars, threadVars>>

\* the persisted index file becomes unreadable
CorruptIndexFile ==
    /\ disk.index.kind = "index"
    /\ disk' = [disk EXCEPT !.index = CorruptFile]
    /\ ret' = NoRet
    /\ UNCHANGED <<dataDir, retrVars>>
    /\ UNCHANGED <<pipeVars, threadVars>>

\* the persisted documents file is removed, the index file stays
RemoveDocsFile ==
    /\ disk.index.kind = "index"
    /\ disk.docs.kind = "text"
    /\ disk' = [disk EXCEPT !.docs = Absent]
    /\ ret' = NoRet
    /\ UNCHANGED <<dataDir, retrVars>>
    /\ UNCHANGED <<pipeVars, threadVars>>

\* the process ends; a new one starts with no retriever
Restart ==
    /\ _retriever # "None"
    /\ _retriever' = "None"
    /\ documents' = <<>>
    /\ index' = NoIndex
    /\ ret' = NoRet
    /\ UNCHANGED envVars
    /\ UNCHANGED <<pipeVars, threadVars>>

\* ----------------------------------------------------- the Retriever calls
\* DocumentRetriever(embedder, data_dir, index_path)
NewRetriever(fault) ==
    /\ _retriever = "None"
    /\ LET out == _initialize(disk, dataDir, fault)
       IN  /\ disk' = out.disk
           /\ IF out.raised
              THEN UNCHANGED retrVars
              ELSE /\ _retriever' = "DocumentRetriever"
                   /\ documents' = out.documents
                   /\ index' = out.index
           /\ ret' = [OpRet("init",
                             IF disk.index # Absent THEN "load" ELSE "build",
                             out.raised, fault) EXCEPT !.calls = out.calls]
    /\ UNCHANGED dataDir
    /\ UNCHANGED <<pipeVars, threadVars>>

\* a retrieve whose error throws the in-memory index away
RetrieveCallInvalidating(query, top_k, fault) ==
    /\ _retriever # "None"
    /\ \E o \in retrieve(documents, index, query, top_k, fault) :
          /\ ret' = [NoRet EXCEPT !.op = "retrieve", !.raised = o.raised,
                                  !.fault = fault, !.query = query,
                                  !.top_k = top_k, !.result = o.result]
          /\ index' = IF o.raised THEN IndexFlatIP(<<>>) ELSE index
    /\ UNCHANGED <<envVars, _retriever, documents>>
    /\ UNCHANGED <<pipeVars, threadVars>>

\* retriever.retrieve(query, top_k)
RetrieveCall(query, top_k, fault) ==
    /\ _retriever # "None"
    /\ \E o \in retrieve(documents, index, query, top_k, fault) :
          ret' = [op |-> "retrieve", path |-> "none", raised |-> o.raised,
                  fault |-> fault, query |-> query, top_k |-> top_k,
                  result |-> o.result,
                  again |-> FALSE, before |-> <<>>, calls |-> <<>>]
    /\ UNCHANGED <<envVars, retrVars>>
    /\ UNCHANGED <<pipeVars, threadVars>>

\* the caller repeats the retrieve that has just returned: the same query
\* and the same top_k, nothing in between
RetrieveAgain(fault) ==
    /\ _retriever # "None"
    /\ ret.op = "retrieve" /\ ~ret.raised
    /\ \E o \in retrieve(documents, index, ret.query, ret.top_k, fault) :
          ret' = [ret EXCEPT !.raised = o.raised, !.fault = fault,
                             !.result = o.result, !.again = ~o.raised,
                             !.before = IF o.raised THEN <<>> ELSE ret.result]
    /\ UNCHANGED <<envVars, retrVars>>
    /\ UNCHANGED <<pipeVars, threadVars>>

\* retriever.rebuild_index()
RebuildCall(fault) ==
    /\ _retriever # "None"
    /\ LET out == _create_index(documents, index, disk, dataDir, fault)
       IN  /\ documents' = out.documents
           /\ index' = out.index
           /\ disk' = out.disk
           /\ ret' = [OpRet("rebuild", "build", out.raised, fault)
                         EXCEPT !.calls = out.calls]
    /\ UNCHANGED <<dataDir, _retriever>>
    /\ UNCHANGED <<pipeVars, threadVars>>

Init ==
    /\ dataDir = [exists |-> FALSE, files |-> <<>>]
    /\ disk = NoDisk
    /\ _retriever = "None"
    /\ documents = <<>>
    /\ index = NoIndex
    /\ ret = NoRet
    /\ apiKey = TRUE
    /\ modelOk = TRUE
    /\ PipelineIdle
    /\ ThreadsIdle

Next ==
    \/ \E f \in LifecycleFiles : PutFile(f)
    \/ \E i \in 1..MaxFiles : DeleteFile(i)
    \/ RemoveDataDir
    \/ CorruptIndexFile
    \/ RemoveDocsFile
    \/ Restart
    \/ \E fault \in Faults : NewRetriever(fault)
    \/ \E q \in Queries, k \in TopKs, fault \in Faults : RetrieveCall(q, k, fault)
    \/ \E fault \in Faults : RebuildCall(fault)

Spec == Init /\ [][Next]_vars

\* --------------------------------- the lifecycle with failing collaborators
\* the same Retriever calls, where the search and the two writes of
\* _save_index can fail too; the requests are valid ones, one query ranking
\* the documents in row order and one against it
FaultQueries == {Question, <<BS>>}

NextFaults ==
    \/ \E f \in LifecycleFiles : PutFile(f)
    \/ Restart
    \/ \E fault \in BuildFaults : NewRetriever(fault)
    \/ \E q \in FaultQueries, k \in 1..MaxTopK, fault \in RetrieveFaults :
          RetrieveCall(q, k, fault)
    \/ \E fault \in RetrieveFaults : RetrieveAgain(fault)
    \/ \E fault \in BuildFaults : RebuildCall(fault)

SpecFaults == Init /\ [][NextFaults]_vars

\* =================================================== lifecycle properties
Max(a, b) == IF a >= b THEN a ELSE b

\* row i of the index is the embedding of document i, row for row
Aligned(ix, docs) ==
    /\ ix # NoIndex
    /\ ntotal(ix) = Len(docs)
    /\ \A i \in 1..Len(docs) : ix.rows[i] = Encode(docs[i])

\* C4: when a build, a load of saved artifacts or a rebuild has completed,
\* the index has one row per document and row i is the embedding of
\* document i.
C4_IndexAlignedWithDocuments ==
    (_retriever # "None" /\ ret.op \in {"init", "rebuild"} /\ ~ret.raised) =>
        Aligned(index, documents)

\* the counts the persisted artifacts hold (nothing persisted counts as 0)
DiskRowCount == IF disk.index.kind = "index" THEN Len(disk.index.rows) ELSE 0
DiskDocCount == IF disk.docs.kind = "text" THEN Len(ReadLines(disk.docs.text)) ELSE 0

\* some retrieve on the current Retriever returns document d
CanRetrieve(d) ==
    \E q \in Queries, k \in TopKs :
        \E o \in retrieve(documents, index, q, k, NoFault) :
            /\ ~o.raised
            /\ \E p \in 1..Len(o.result) : o.result[p].doc = d

\* C5: after a rebuild that completes without error the persisted document
\* count and row count equal the number of documents loadable from the
\* directory, whatever it holds (also nothing), and retrieve can return each
\* of them.
C5_RebuildPersistsDirectory ==
    (ret.op = "rebuild" /\ ~ret.raised) =>
        LET docs == _load_documents(dataDir)
        IN  /\ DiskRowCount = Len(docs)
            /\ DiskDocCount = Len(docs)
            /\ \A i \in 1..Len(docs) : CanRetrieve(docs[i])

\* C8: a retrieve with top_k <= 0 returns an empty sequence and raises no
\* error, in every index state.
C8_NonPositiveTopKReturnsEmpty ==
    (ret.op = "retrieve" /\ ret.fault = NoFault /\ ret.top_k <= 0) =>
        (~ret.raised /\ ret.result = <<>>)

\* C10: a retrieve that returns gives at most min(top_k, row_count) pairs
\* (no pair for top_k <= 0), at most as many pairs as there are documents,
\* and no pair at all when the index has no row.
C10_ResultLengthBounded ==
    (ret.op = "retrieve" /\ ~ret.raised) =>
        /\ Len(ret.result) <= Max(0, Min(ret.top_k, ntotal(index)))
        /\ Len(ret.result) <= Len(documents)
        /\ ntotal(index) = 0 => ret.result = <<>>

\* a retrieve asked for more than the index holds and got every row
C10_Witness ==
    /\ ret.op = "retrieve" /\ ~ret.raised
    /\ ntotal(index) >= 1
    /\ ret.top_k > ntotal(index)
    /\ Len(ret.result) = ntotal(index)

\* C11: an initialization that finds a persisted index file it cannot read
\* ends in an error, and leaves no Retriever: none that holds an empty index
\* or one built from the directory in place of the unreadable one.
C11_UnreadableIndexPropagates ==
    (ret.op = "init" /\ disk.index = CorruptFile) =>
        /\ ret.raised
        /\ ret.path = "load"
        /\ _retriever = "None"
        /\ index = NoIndex

\* an initialization has failed on an unreadable index file, the source
\* directory holding documents it could have built from
C11_Witness ==
    /\ ret.op = "init" /\ ret.raised
    /\ disk.index = CorruptFile
    /\ _load_documents(dataDir) # <<>>

\* the Retriever holds rows and no document: it loaded an index file whose
\* documents file was missing
LoadedWithoutDocuments ==
    /\ _retriever # "None"
    /\ index # NoIndex
    /\ ntotal(index) >= 1
    /\ documents = <<>>

\* C12: a load of an index file whose documents file is missing succeeds
\* with an empty document list, and every retrieve on that Retriever then
\* completes without error and returns the empty result.
C12_MissingDocumentsFileLoadsEmpty ==
    /\ (ret.op = "init" /\ disk.index.kind = "index" /\ disk.docs = Absent) =>
           (~ret.raised /\ documents = <<>>)
    /\ (ret.op = "retrieve" /\ ret.fault = NoFault /\ LoadedWithoutDocuments) =>
           (~ret.raised /\ ret.result = <<>>)

\* every retrieve on the current Retriever, whatever the query, top_k and
\* fault, returns the empty sequence
AllRetrievesReturnEmpty ==
    \A q \in Queries, k \in TopKs, fault \in RetrieveFaults :
        retrieve(documents, index, q, k, fault) = {Returned(<<>>)}

\* C13: a build (at initialization or by rebuild) that finds no loadable
\* document, the directory missing or empty, completes without error and
\* leaves a Retriever holding a zero-row index; every retrieve on a zero-row
\* index returns the empty sequence without error.
C13_NoDocumentsGivesEmptyIndex ==
    /\ (ret.op \in {"init", "rebuild"} /\ ret.path = "build"
            /\ _load_documents(dataDir) = <<>>) =>
           /\ ~ret.raised
           /\ _retriever # "None"
           /\ index = IndexFlatIP(<<>>)
           /\ documents = <<>>
           /\ AllRetrievesReturnEmpty
    /\ (ret.op = "retrieve" /\ index # NoIndex /\ ntotal(index) = 0) =>
           (~ret.raised /\ ret.result = <<>>)

\* a retrieve with a valid request has returned on a Retriever that was built
\* while the source directory was missing
C13_Witness ==
    /\ ret.op = "retrieve" /\ ret.query = Question /\ ret.top_k >= 1
    /\ ~ret.raised /\ ret.result = <<>>
    /\ index = IndexFlatIP(<<>>)
    /\ ~dataDir.exists
    /\ disk = NoDisk

BuildCalls == <<"_load_documents", "embed_documents", "IndexFlatIP", "add",
                "write_index", "write_docs">>

\* C21: an initialization loads exactly when the index file exists. When it
\* loads it reads the persisted artifacts and nothing else: the source
\* directory is not scanned, nothing is embedded, nothing is written. When it
\* builds (no collaborator failing) it loads the documents, embeds them,
\* builds the index and persists it, in that order.
C21_LoadIffIndexFileExists ==
    [][(ret'.op = "init" /\ ret'.fault = NoFault) =>
          IF disk.index # Absent
          THEN /\ Len(ret'.calls) >= 1
               /\ \A i \in 1..Len(ret'.calls) :
                      ret'.calls[i] \in {"read_index", "read_docs"}
               /\ disk' = disk
          ELSE /\ ret'.calls = BuildCalls
               /\ disk'.index = IndexFile(index'.rows)
               /\ disk'.docs = TextFile(WriteDocs(documents'))]_vars

\* ============================= properties under failing collaborators
\* C15: a retrieve that ends in an error (the embedding or the search
\* failed) changes neither the in-memory index, nor the document list, nor
\* the persisted artifacts, and a retrieve of a valid request made next on
\* the same Retriever does not raise.
C15_RetrieveErrorIsLocal ==
    [][(ret'.op = "retrieve" /\ ret'.raised) =>
          /\ UNCHANGED <<index, documents, disk>>
          /\ \A k \in 1..MaxTopK :
                \A o \in retrieve(documents', index', Question, k, NoFault) :
                    ~o.raised]_vars

\* a retrieve has failed in the search, on an index that holds rows and is
\* persisted
C15_Witness ==
    /\ ret.op = "retrieve" /\ ret.raised /\ ret.fault = SearchFault
    /\ index # NoIndex
    /\ ntotal(index) >= 1
    /\ disk.index.kind = "index"

\* the scores of a result never increase along it
Descending(result) ==
    \A i, j \in 1..Len(result) :
        i < j => result[i].score >= result[j].score

BuiltFromDocuments ==
    /\ ret.op \in {"init", "rebuild"}
    /\ ret.path = "build"
    /\ _load_documents(dataDir) # <<>>

\* C18: when the write of the index file or of the documents file fails, the
\* build or rebuild that called the save ends in an error; a build that ends
\* without error has written both artifacts, never one of them alone.
C18_SaveFailurePropagates ==
    BuiltFromDocuments =>
        /\ ret.fault \in {WriteIndexFault, WriteDocsFault} => ret.raised
        /\ ~ret.raised =>
              /\ disk.index = IndexFile(index.rows)
              /\ disk.docs = TextFile(WriteDocs(documents))

\* a rebuild has ended in an error after it wrote the index file and failed
\* on the documents file
C18_Witness ==
    /\ ret.op = "rebuild" /\ ret.raised /\ ret.fault = WriteDocsFault
    /\ disk.index = IndexFile(index.rows)
    /\ disk.docs # TextFile(WriteDocs(documents))

\* C19: whenever the index file and the documents file both exist, the
\* documents file holds as many documents as the index file holds rows, also
\* after a save that failed between the two writes.
C19_PersistedCountsAgree ==
    (disk.index.kind = "index" /\ disk.docs.kind = "text") =>
        DiskDocCount = DiskRowCount

\* C20: a rebuild that ends in an error (the embedding of the documents or
\* a write of the save failed) leaves the in-memory index and the document
\* list as they were when it started.
C20_FailedRebuildChangesNothing ==
    [][(ret'.op = "rebuild" /\ ret'.raised) =>
          UNCHANGED <<index, documents>>]_vars

\* ============================================== save and load, round trip
\* every text of at most n characters
Texts(n) == UNION {[1..k -> Alphabet] : k \in 1..n}

\* the directories of one to MaxDocs plain-text files, any content
RoundTripDirs ==
    {[exists |-> TRUE, files |-> fs] :
        fs \in UNION {[1..n -> {TxtFile(TRUE, t) : t \in Texts(MaxTextLen)}] :
                        n \in 1..MaxDocs}}

InitRoundTrip ==
    /\ dataDir \in RoundTripDirs
    /\ disk = NoDisk
    /\ _retriever = "None"
    /\ documents = <<>>
    /\ index = NoIndex
    /\ ret = NoRet
    /\ apiKey = TRUE
    /\ modelOk = TRUE
    /\ PipelineIdle
    /\ ThreadsIdle

\* the first process builds and saves; every later one loads
NextRoundTrip ==
    \/ NewRetriever(NoFault)
    \/ Restart

SpecRoundTrip == InitRoundTrip /\ [][NextRoundTrip]_vars

\* C7: whatever characters the documents hold, a load of what save wrote
\* gives back the same documents (same length, order and text), row i of the
\* loaded index being the embedding of document i.
C7_SaveLoadRoundTrip ==
    (ret.op = "init" /\ ret.path = "load" /\ ~ret.raised) =>
        /\ documents = _load_documents(dataDir)
        /\ Aligned(index, documents)

\* ===================================================== the document loader
\* files of both kinds, readable or not: text that is blank, plain, or
\* wrapped in whitespace; pages without text, with text, with blank text
LoaderFiles ==
    {TxtFile(r, t) : r \in BOOLEAN, t \in {<<SP>>, <<"a">>, <<SP, "n", NL>>}}
    \cup {PdfFile(r, p) : r \in BOOLEAN,
                          p \in {<< <<>> >>, << <<BS>>, <<SP>> >>}}

\* the source directory: missing, empty, or holding up to MaxLoaderFiles files
LoaderDirs ==
    {[exists |-> FALSE, files |-> <<>>]}
    \cup {[exists |-> TRUE, files |-> fs] :
             fs \in UNION {[1..n -> LoaderFiles] : n \in 0..MaxLoaderFiles}}

InitLoader ==
    /\ dataDir \in LoaderDirs
    /\ disk = NoDisk
    /\ _retriever = "None"
    /\ documents = <<>>
    /\ index = NoIndex
    /\ ret = NoRet
    /\ apiKey = TRUE
    /\ modelOk = TRUE
    /\ PipelineIdle
    /\ ThreadsIdle

\* the Retriever is constructed, which builds from the directory, and
\* rebuilt from it
NextLoader ==
    \/ NewRetriever(NoFault)
    \/ RebuildCall(NoFault)

SpecLoader == InitLoader /\ [][NextLoader]_vars

\* the directory without the files that cannot be read
ReadableOnly(dir) ==
    [dir EXCEPT !.files = SelectSeq(dir.files, LAMBDA f : f.readable)]

\* the last call was a build: it has called the loader
Built == ret.op \in {"init", "rebuild"} /\ ret.path = "build"

\* C22: the loading of the documents never fails as a whole. A missing
\* directory and a directory without supported files give the empty
\* sequence; a file that cannot be read or extracted is left out, and the
\* sequence holds every other file that loaded, in the same relative order:
\* it is what the directory without the failing files gives.
C22_LoaderIsolatesFileFailures ==
    Built =>
        /\ ~ret.raised
        /\ documents = _load_documents(ReadableOnly(dataDir))
        /\ (~dataDir.exists \/ dataDir.files = <<>>) => documents = <<>>

\* a build has loaded the first and the third file of a directory whose
\* second file cannot be read
C22_Witness ==
    /\ Built /\ ~ret.raised
    /\ Len(dataDir.files) = 3
    /\ \A i \in 1..3 : IsTxt(dataDir.files[i])
    /\ ~dataDir.files[2].readable
    /\ documents = <<Strip(dataDir.files[1].pages[1]),
                     Strip(dataDir.files[3].pages[1])>>
    /\ documents[1] # documents[2]

\* C24: the sequence the loader gives never holds an empty or a
\* whitespace-only text: a file whose text is empty once trimmed is skipped,
\* a plain-text file as well as a file of pages.
C24_NoBlankDocument ==
    Built =>
        \A i \in 1..Len(documents) :
            documents[i] # <<>> /\ Strip(documents[i]) # <<>>

\* a build has skipped a whitespace-only text file and a file whose pages
\* hold no text, and loaded the one file left
C24_Witness ==
    /\ Built /\ ~ret.raised
    /\ Len(dataDir.files) = 3
    /\ \E i, j \in 1..3 :
          /\ dataDir.files[i] = TxtFile(TRUE, <<SP>>)
          /\ dataDir.files[j] = PdfFile(TRUE, << <<>> >>)
    /\ Len(documents) = 1

\* ================================================================ pipeline
\* ask(question, top_k=3): the endpoint never passes top_k
DefaultTopK == 3

\* the source directory of the pipeline's Retriever ("data")
PipelineDir == [exists |-> TRUE, files |-> <<TxtFile(TRUE, <<SP, "a">>)>>]

\* what ask_question answers: 200, 503 on ValueError, 500 on anything else
HttpStatus(exc) ==
    IF exc = "none" THEN 200 ELSE IF exc = "ValueError" THEN 503 ELSE 500

\* the exception that leaves the function: ask re-raises a ValueError and
\* wraps everything else in Exception; rebuild_index re-raises what it caught
Leaves(fn, exc) ==
    IF fn = "ask" /\ exc # "ValueError" THEN "Exception" ELSE exc

\* caller c's call ends with exception exc, raised for cause
RaiseIn(c, exc, cause) ==
    pc' = [pc EXCEPT ![c] = [fn |-> pc[c].fn, at |-> "raised",
                             exc |-> Leaves(pc[c].fn, exc), cause |-> cause,
                             http |-> IF pc[c].fn = "ask"
                                      THEN HttpStatus(Leaves(pc[c].fn, exc))
                                      ELSE 0,
                             metrics |-> IF pc[c].fn = "ask"
                                         THEN Recorded(Leaves(pc[c].fn, exc))
                                         ELSE NoMetrics]]

\* caller c's call returns
ReturnIn(c) ==
    pc' = [pc EXCEPT ![c] = [fn |-> pc[c].fn, at |-> "returned",
                             exc |-> "none", cause |-> "none",
                             http |-> IF pc[c].fn = "ask"
                                      THEN HttpStatus("none") ELSE 0,
                             metrics |-> IF pc[c].fn = "ask"
                                         THEN Recorded("none") ELSE NoMetrics]]

Goto(c, at) == pc' = [pc EXCEPT ![c].at = at]

\* where a call goes once _initialize_components has returned
AfterInit(fn) == IF fn = "ask" THEN "retrieve" ELSE "rebuild"

\* a request calls ask(question) / something calls rebuild_index()
Call(c, fn) ==
    /\ pc[c].at = "idle"
    /\ pc' = [pc EXCEPT ![c] = [IdleFrame EXCEPT !.fn = fn, !.at = "init"]]
    /\ UNCHANGED <<envVars, retrVars, ret, _embedder, _groq_client, apiKey,
                   modelOk, modelLoads, retrieverInits, threadVars>>

\* the caller takes the result of its call
Done(c) ==
    /\ pc[c].at \in {"returned", "raised"}
    /\ pc' = [pc EXCEPT ![c] = IdleFrame]
    /\ UNCHANGED <<envVars, retrVars, ret, _embedder, _groq_client, apiKey,
                   modelOk, modelLoads, retrieverInits, threadVars>>

\* _initialize_components: if _embedder is None
InitCheck(c) ==
    /\ pc[c].at = "init"
    /\ IF _embedder = "None"
       THEN Goto(c, "load_model")
       ELSE Goto(c, AfterInit(pc[c].fn))
    /\ UNCHANGED <<envVars, retrVars, ret, _embedder, _groq_client, apiKey,
                   modelOk, modelLoads, retrieverInits, threadVars>>

\* _embedder = Embedder(model_name=...): the model is loaded, then the
\* global is assigned
LoadModel(c) ==
    /\ pc[c].at = "load_model"
    /\ IF modelOk
       THEN /\ _embedder' = "Embedder"
            /\ modelLoads' = modelLoads + 1
            /\ Goto(c, "new_retriever")
       ELSE /\ RaiseIn(c, "Exception", "model_load")
            /\ UNCHANGED <<_embedder, modelLoads>>
    /\ UNCHANGED <<envVars, retrVars, ret, _groq_client, apiKey, modelOk,
                   retrieverInits, threadVars>>

\* _retriever = DocumentRetriever(embedder=_embedder, ...): the index is
\* loaded or built, then the global is assigned
NewPipelineRetriever(c, fault) ==
    /\ pc[c].at = "new_retriever"
    /\ LET out == _initialize(disk, dataDir, fault)
       IN  /\ disk' = out.disk
           /\ IF out.raised
              THEN /\ RaiseIn(c, "Exception",
                              IF disk.index # Absent THEN "index_load"
                              ELSE "index_build")
                   /\ UNCHANGED <<retrVars, retrieverInits>>
              ELSE /\ _retriever' = "DocumentRetriever"
                   /\ documents' = out.documents
                   /\ index' = out.index
                   /\ retrieverInits' = retrieverInits + 1
                   /\ Goto(c, "api_key")
    /\ UNCHANGED <<dataDir, ret, _embedder, _groq_client, apiKey, modelOk,
                   modelLoads, threadVars>>

\* groq_api_key = os.getenv("GROQ_API_KEY"); raise ValueError when missing,
\* else _groq_client = Groq(api_key=groq_api_key)
ApiKeyCheck(c) ==
    /\ pc[c].at = "api_key"
    /\ IF ~apiKey
       THEN /\ RaiseIn(c, "ValueError", "api_key")
            /\ UNCHANGED _groq_client
       ELSE /\ _groq_client' = "Groq"
            /\ Goto(c, AfterInit(pc[c].fn))
    /\ UNCHANGED <<envVars, retrVars, ret, _embedder, apiKey, modelOk,
                   modelLoads, retrieverInits, threadVars>>

\* contexts = _retriever.retrieve(query=question, top_k=top_k)
AskRetrieve(c, fault) ==
    /\ pc[c].at = "retrieve"
    /\ IF _retriever = "None"
       THEN RaiseIn(c, "AttributeError", "no_retriever")
       ELSE \E o \in retrieve(documents, index, Question, DefaultTopK, fault) :
               IF o.raised
               THEN RaiseIn(c, "Exception", "retrieve_error")
               ELSE Goto(c, "generate")
    /\ UNCHANGED <<envVars, retrVars, ret, _embedder, _groq_client, apiKey,
                   modelOk, modelLoads, retrieverInits, threadVars>>

\* _groq_client.chat.completions.create(...), then the answer is returned
AskGenerate(c, llmOk) ==
    /\ pc[c].at = "generate"
    /\ IF _groq_client = "None"
       THEN RaiseIn(c, "AttributeError", "no_client")
       ELSE IF llmOk THEN ReturnIn(c)
       ELSE RaiseIn(c, "Exception", "llm_error")
    /\ UNCHANGED <<envVars, retrVars, ret, _embedder, _groq_client, apiKey,
                   modelOk, modelLoads, retrieverInits, threadVars>>

\* rebuild_index(): _retriever.rebuild_index()
PipelineRebuild(c, fault) ==
    /\ pc[c].at = "rebuild"
    /\ IF _retriever = "None"
       THEN /\ RaiseIn(c, "AttributeError", "no_retriever")
            /\ UNCHANGED <<documents, index, disk>>
       ELSE LET out == _create_index(documents, index, disk, dataDir, fault)
            IN  /\ documents' = out.documents
                /\ index' = out.index
                /\ disk' = out.disk
                /\ IF out.raised
                   THEN RaiseIn(c, "Exception", "rebuild_error")
                   ELSE ReturnIn(c)
    /\ UNCHANGED <<dataDir, _retriever, ret, _embedder, _groq_client, apiKey,
                   modelOk, modelLoads, retrieverInits, threadVars>>

\* ---------------------------------------- the environment of the pipeline
\* GROQ_API_KEY is put into the environment of the running process
SetApiKey ==
    /\ ~apiKey
    /\ apiKey' = TRUE
    /\ UNCHANGED <<envVars, retrVars, ret, _embedder, _groq_client, modelOk,
                   pc, modelLoads, retrieverInits, threadVars>>

\* the embedding model becomes (un)available (network, cache)
ToggleModel ==
    /\ modelOk' = ~modelOk
    /\ UNCHANGED <<envVars, retrVars, ret, _embedder, _groq_client, apiKey,
                   pc, modelLoads, retrieverInits, threadVars>>

\* the unreadable index file is removed
RemoveCorruptIndex ==
    /\ disk.index = CorruptFile
    /\ disk' = NoDisk
    /\ UNCHANGED <<dataDir, retrVars, ret, pipeVars, threadVars>>

\* the process ends and a new one imports the pipeline module; load_dotenv
\* reads the environment again
RestartProcess ==
    /\ \A c \in Callers : pc[c].at = "idle"
    /\ _embedder' = "None"
    /\ _retriever' = "None"
    /\ _groq_client' = "None"
    /\ documents' = <<>>
    /\ index' = NoIndex
    /\ modelLoads' = 0
    /\ retrieverInits' = 0
    /\ apiKey' \in BOOLEAN
    /\ UNCHANGED <<envVars, ret, modelOk, pc, threadVars>>

InitPipeline ==
    /\ dataDir = PipelineDir
    /\ disk = NoDisk
    /\ _retriever = "None"
    /\ documents = <<>>
    /\ index = NoIndex
    /\ ret = NoRet
    /\ apiKey \in BOOLEAN
    /\ modelOk = TRUE
    /\ PipelineIdle
    /\ ThreadsIdle

\* the steps of caller c
CallerStep(c) ==
    \/ \E fn \in {"ask", "rebuild_index"} : Call(c, fn)
    \/ Done(c)
    \/ InitCheck(c)
    \/ LoadModel(c)
    \/ \E fault \in Faults : NewPipelineRetriever(c, fault)
    \/ ApiKeyCheck(c)
    \/ \E fault \in Faults : AskRetrieve(c, fault)
    \/ \E llmOk \in BOOLEAN : AskGenerate(c, llmOk)
    \/ \E fault \in Faults : PipelineRebuild(c, fault)

PipelineEnv ==
    \/ SetApiKey
    \/ ToggleModel
    \/ CorruptIndexFile
    \/ RemoveCorruptIndex
    \/ RestartProcess

\* any number of concurrent callers (threads)
NextPipeline ==
    \/ \E c \in Callers : CallerStep(c)
    \/ PipelineEnv

SpecPipeline == InitPipeline /\ [][NextPipeline]_vars

\* one caller at a time: every call ends before the next one starts
NextPipelineSeq ==
    \/ CallerStep(1)
    \/ PipelineEnv

SpecPipelineSeq == InitPipeline /\ [][NextPipelineSeq]_vars

\* ==================================================== pipeline properties
\* the causes of an error raised inside _initialize_components
InitCauses == {"model_load", "index_load", "index_build", "api_key"}
\* the causes of an error that has nothing to do with the API key: a fault
\* of a collaborator, or the Retriever that such a fault left unset
OtherFaults == {"model_load", "index_load", "index_build", "retrieve_error",
                "llm_error", "no_retriever"}

\* the embedder is set while the retriever or the LLM client is not
PartiallyInitialized ==
    _embedder # "None" /\ (_retriever = "None" \/ _groq_client = "None")

\* C1: when lazy initialization fails (model load, persisted index load,
\* missing API key), the components are not marked initialized (the error
\* having reached the caller), so that the next call initializes again and no
\* call fails for a component left unset.
C1_FailedInitIsRetried ==
    \A c \in Callers :
        /\ (/\ pc[c].at = "raised"
            /\ pc[c].cause \in {"model_load", "index_load", "api_key"}) =>
               _embedder = "None"
        /\ pc[c].cause \notin {"no_retriever", "no_client"}

\* C2: the embedding model is loaded and the Retriever constructed at most
\* once per process, however the callers interleave.
C2_InitializedAtMostOnce ==
    modelLoads <= 1 /\ retrieverInits <= 1

\* C3: while another caller's initialization is in progress, no caller has
\* gone on to retrieval, generation or rebuild with a partially initialized
\* component set.
C3_NoCallerPastPartialInit ==
    \A c \in Callers :
        (/\ pc[c].at \in {"retrieve", "generate", "rebuild"}
         /\ \E d \in Callers \ {c} : pc[d].at \in {"new_retriever", "api_key"})
        => ~PartiallyInitialized

\* C9: every call of ask that ends while GROQ_API_KEY is not set (and meets
\* no other fault) raises ValueError, which /ask answers with 503.
C9_AskWithoutKeyIsValueError ==
    \A c \in Callers :
        (pc[c].fn = "ask" /\ pc[c].at \in {"returned", "raised"} /\ ~apiKey) =>
            \/ pc[c].exc = "ValueError" /\ pc[c].http = 503
            \/ pc[c].cause \in OtherFaults

\* C25: every /ask request makes one increment of the request counter, under
\* status success when an answer is returned and under status error
\* otherwise, and one increment of the failure counter exactly when it ends
\* in an error; a request still in progress has incremented nothing.
C25_RequestCountedOnce ==
    \A c \in Callers :
        pc[c].fn = "ask" =>
            LET m == pc[c].metrics
            IN  IF pc[c].at \in {"returned", "raised"}
                THEN /\ m.success + m.error = 1
                     /\ m.success = 1 <=> pc[c].http = 200
                     /\ m.error = 1 <=> pc[c].at = "raised"
                     /\ m.failures = m.error
                ELSE m = NoMetrics

\* one request has been answered and counted as a success while another has
\* failed and been counted as an error and a failure
C25_Witness ==
    \E c, d \in Callers :
        /\ pc[c].fn = "ask" /\ pc[c].at = "returned"
        /\ pc[c].metrics = [success |-> 1, error |-> 0, failures |-> 0]
        /\ pc[d].fn = "ask" /\ pc[d].at = "raised" /\ pc[d].http = 500
        /\ pc[d].metrics = [success |-> 0, error |-> 1, failures |-> 1]

\* ================================== rebuild_index and retrieve, in threads
\* One thread runs DocumentRetriever.rebuild_index and another one
\* DocumentRetriever.retrieve on the same Retriever; the methods take no
\* lock, so their statements interleave.

\* _create_index: self.documents = self._load_documents()
RebuildLoadDocuments ==
    /\ rb.at = "idle"
    /\ documents' = _load_documents(dataDir)
    /\ rb' = [rb EXCEPT !.at = IF documents' = <<>> THEN "empty" ELSE "embed"]
    /\ ret' = NoRet
    /\ UNCHANGED <<envVars, _retriever, index, pipeVars, rt>>

\* _create_index, no document: self.index = faiss.IndexFlatIP(dimension)
RebuildEmptyIndex ==
    /\ rb.at = "empty"
    /\ index' = IndexFlatIP(<<>>)
    /\ rb' = NoRebuild
    /\ ret' = OpRet("rebuild", "build", FALSE, NoFault)
    /\ UNCHANGED <<envVars, _retriever, documents, pipeVars, rt>>

\* _create_index: embeddings = self.embedder.embed_documents(self.documents)
RebuildEmbed(fault) ==
    /\ rb.at = "embed"
    /\ IF fault = EmbedFault
       THEN /\ rb' = NoRebuild
            /\ ret' = OpRet("rebuild", "build", TRUE, fault)
       ELSE /\ rb' = [at |-> "new_index", embeddings |-> embed_documents(documents)]
            /\ ret' = NoRet
    /\ UNCHANGED <<envVars, retrVars, pipeVars, rt>>

\* _create_index: self.index = faiss.IndexFlatIP(dimension)
RebuildNewIndex ==
    /\ rb.at = "new_index"
    /\ index' = IndexFlatIP(<<>>)
    /\ rb' = [rb EXCEPT !.at = "add"]
    /\ ret' = NoRet
    /\ UNCHANGED <<envVars, _retriever, documents, pipeVars, rt>>

\* _create_index: self.index.add(embeddings.astype(np.float32))
RebuildAdd ==
    /\ rb.at = "add"
    /\ index' = IndexFlatIP(index.rows \o rb.embeddings)
    /\ rb' = [rb EXCEPT !.at = "save"]
    /\ ret' = NoRet
    /\ UNCHANGED <<envVars, _retriever, documents, pipeVars, rt>>

\* _create_index: self._save_index()
RebuildSave ==
    /\ rb.at = "save"
    /\ disk' = _save_index(documents, index, disk, NoFault).disk
    /\ rb' = NoRebuild
    /\ ret' = OpRet("rebuild", "build", FALSE, NoFault)
    /\ UNCHANGED <<dataDir, retrVars, pipeVars, rt>>

\* the retrieve ends: it raised, or returned result
RetrieveEnds(raised, result, fault) ==
    /\ ret' = [NoRet EXCEPT !.op = "retrieve", !.raised = raised,
                            !.fault = fault, !.query = rt.query,
                            !.top_k = rt.top_k, !.result = result]
    /\ rt' = NoRetrieve

\* retrieve: if not self.index or self.index.ntotal == 0: return []
RetrieveStart(query, top_k) ==
    /\ rt.at = "idle"
    /\ IF index = NoIndex \/ ntotal(index) = 0
       THEN /\ ret' = [NoRet EXCEPT !.op = "retrieve", !.query = query,
                                    !.top_k = top_k]
            /\ rt' = NoRetrieve
       ELSE /\ rt' = [NoRetrieve EXCEPT !.at = "embed", !.query = query,
                                        !.top_k = top_k]
            /\ ret' = NoRet
    /\ UNCHANGED <<envVars, retrVars, pipeVars, rb>>

\* the embedding step without the return on an empty query embedding
RetrieveEmbedBlank(fault) ==
    /\ rt.at = "embed"
    /\ IF fault = EmbedFault THEN RetrieveEnds(TRUE, <<>>, fault)
       ELSE /\ rt' = [rt EXCEPT !.at = "clamp"]
            /\ ret' = NoRet
    /\ UNCHANGED <<envVars, retrVars, pipeVars, rb>>

\* retrieve: query_embedding = self.embedder.embed_query(query)
RetrieveEmbed(fault) ==
    /\ rt.at = "embed"
    /\ IF embed_query(rt.query) = EmptyArray THEN RetrieveEnds(FALSE, <<>>, fault)
       ELSE IF fault = EmbedFault THEN RetrieveEnds(TRUE, <<>>, fault)
       ELSE /\ rt' = [rt EXCEPT !.at = "clamp"]
            /\ ret' = NoRet
    /\ UNCHANGED <<envVars, retrVars, pipeVars, rb>>

\* retrieve: top_k = min(top_k, self.index.ntotal)
RetrieveClamp ==
    /\ rt.at = "clamp"
    /\ rt' = [rt EXCEPT !.at = "search", !.top_k = Min(rt.top_k, ntotal(index))]
    /\ ret' = NoRet
    /\ UNCHANGED <<envVars, retrVars, pipeVars, rb>>

\* retrieve: scores, indices = self.index.search(query_embedding, top_k)
RetrieveSearch ==
    /\ rt.at = "search"
    /\ \E o \in SearchOutcomes(index, embed_query(rt.query), rt.top_k) :
          IF o.raised THEN RetrieveEnds(TRUE, <<>>, NoFault)
          ELSE /\ rt' = [rt EXCEPT !.at = "resolve", !.slots = o.slots,
                                   !.searched = index]
               /\ ret' = NoRet
    /\ UNCHANGED <<envVars, retrVars, pipeVars, rb>>

\* retrieve: the loop over zip(scores[0], indices[0]) reading self.documents
RetrieveResolve ==
    /\ rt.at = "resolve"
    /\ LET o == Resolve(documents, rt.slots)
       IN  /\ ret' = [NoRet EXCEPT !.op = "retrieve", !.raised = o.raised,
                                   !.query = rt.query, !.top_k = rt.top_k,
                                   !.result = o.result]
           /\ rt' = [rt EXCEPT !.at = "done", !.resolved = documents,
                               !.during = (rb.at # "idle"),
                               !.result = o.result]
    /\ UNCHANGED <<envVars, retrVars, pipeVars, rb>>

\* the caller of retrieve takes its result
RetrieveReturn ==
    /\ rt.at = "done"
    /\ rt' = NoRetrieve
    /\ UNCHANGED <<envVars, retrVars, ret, pipeVars, rb>>

\* a Retriever built from some directory, no call in flight
InitThreads ==
    /\ dataDir \in {[exists |-> TRUE, files |-> fs] :
                      fs \in UNION {[1..n -> LifecycleFiles] : n \in 0..MaxFiles}}
    /\ LET out == _initialize(NoDisk, dataDir, NoFault)
       IN  /\ disk = out.disk
           /\ documents = out.documents
           /\ index = out.index
    /\ _retriever = "DocumentRetriever"
    /\ ret = NoRet
    /\ apiKey = TRUE
    /\ modelOk = TRUE
    /\ PipelineIdle
    /\ ThreadsIdle

NextThreads ==
    \/ \E f \in LifecycleFiles : PutFile(f)
    \/ \E i \in 1..MaxFiles : DeleteFile(i)
    \/ RebuildLoadDocuments
    \/ RebuildEmptyIndex
    \/ \E fault \in Faults : RebuildEmbed(fault)
    \/ RebuildNewIndex
    \/ RebuildAdd
    \/ RebuildSave
    \/ \E q \in Queries, k \in TopKs : RetrieveStart(q, k)
    \/ \E fault \in Faults : RetrieveEmbed(fault)
    \/ RetrieveClamp
    \/ RetrieveSearch
    \/ RetrieveResolve
    \/ RetrieveReturn

SpecThreads == InitThreads /\ [][NextThreads]_vars

\* C6: a retrieve that returns pairs while a rebuild is in progress has
\* resolved the rows it searched against the document list of the same
\* generation: the index it searched and the documents it read are an aligned
\* pair, the old one or the new one.
C6_RetrieveSeesConsistentPair ==
    (rt.at = "done" /\ rt.during /\ rt.result # <<>>) =>
        Aligned(rt.searched, rt.resolved)

\* C14: a retrieve with a blank or whitespace-only query returns the empty
\* sequence without error, and never gets to the statements that clamp top_k
\* and call index.search, whatever the index holds and whatever top_k is.
C14_BlankQuerySkipsSearch ==
    /\ (ret.op = "retrieve" /\ Strip(ret.query) = <<>>) =>
           (~ret.raised /\ ret.result = <<>>)
    /\ (rt.at \in {"clamp", "search", "resolve", "done"}) =>
           Strip(rt.query) # <<>>

\* a retrieve with a whitespace-only query has returned on an index that
\* holds rows
C14_Witness ==
    /\ ret.op = "retrieve" /\ ret.query = <<SP>> /\ ret.top_k >= 1
    /\ ~ret.raised /\ ret.result = <<>>
    /\ index # NoIndex
    /\ ntotal(index) >= 1

\* C23: every row index that retrieve resolves to a document text lies in
\* 0..len(documents)-1: the search, asked for no more than the row count,
\* gives no -1, so that no negative index is used on the document list.
C23_ResolvedIndexInRange ==
    (rt.at = "done") =>
        \A p \in 1..Len(rt.slots) :
            rt.slots[p].idx < Len(rt.resolved) => rt.slots[p].idx >= 0
====
